---- MODULE Spec2Model ----
(***************************************************************************)
(* Hours engine (lib/time.ts, lib/closeTime.ts) and ranking engine         *)
(* (app/page.tsx) of What Still Open Sydney.                               *)
(*                                                                         *)
(* Representation                                                          *)
(*   - a string is a tuple of one-character strings;                       *)
(*   - a JS number that may be NaN is <<>> (NaN) or <<n>>;                 *)
(*   - a Date is the number of minutes since a Sunday 00:00 local time;    *)
(*     Date | null is <<>> (null) or <<t>>;                                *)
(*   - Hours is a function from a set of day keys to tuples of windows,    *)
(*     a window being <<openStr, closeStr>>.                               *)
(* Local wall-clock arithmetic is modelled without daylight-saving shifts. *)
(***************************************************************************)
EXTENDS Integers, Sequences, FiniteSets, TLC

VARIABLES
  hours,    \* the schedule under evaluation
  at,       \* the reference instant
  pc,       \* position of the caller
  isOpen,   \* result of isVenueOpenAt
  closeAt,  \* result of getVenueCloseAt
  venue,    \* the venue passed to scoreVenue
  norms,    \* the locals openNorm, eatClubNorm, actionNorm of scoreVenue
  score,    \* result of scoreVenue
  pool,     \* the list passed to pickFromTopScored
  picked,   \* result of pickFromTopScored
  datetime, \* HomePage state: the value of the datetime-local input
  useNearMe,\* HomePage state
  coords,   \* HomePage state: <<>> (null) or <<c>>
  loading,  \* HomePage state
  error,    \* HomePage state: <<>> (null) or <<message>>
  nightPlan,\* HomePage state: <<>> (null) or <<plan>>
  venues,   \* HomePage state: the listed venues
  count,    \* HomePage state
  places,   \* what the Places API returns for each category query
  results,  \* the three fetchCategory promises of planMyNight
  arrival,  \* the categories in the order their fetches settled
  pools,    \* the arrays restaurants, activities, bars of planMyNight
  calls     \* the arguments of the pickFromTopScored calls made so far

planVars == <<datetime, useNearMe, coords, loading, error, nightPlan,
              venues, count, places, results, arrival, pools, calls>>

vars == <<hours, at, pc, isOpen, closeAt, venue, norms, score, pool, picked,
          planVars>>

rankVars == <<venue, norms, score, pool, picked>>

----------------------------------------------------------------------------
(* Bounds *)

\* instants range over the calendar days 0..LastDay (day 0 is a Sunday)
LastDay == 6

\* a bounded schedule holds at most MaxWindows windows
MaxWindows == 2

\* a candidate pool holds at most MaxPool venues
MaxPool == 8

\* Math.random() returns one of the values j / RandDen, j in 0..RandDen-1
RandDen == 4

----------------------------------------------------------------------------
(* Strings and numbers *)

Digits == <<"0", "1", "2", "3", "4", "5", "6", "7", "8", "9">>

NaN == <<>>

IsNaN(x) == x = <<>>

DigitVal(c) == (CHOOSE i \in 1..10 : Digits[i] = c) - 1

IsDigit(c) == \E i \in 1..10 : Digits[i] = c

RECURSIVE DecVal(_)
DecVal(s) == IF s = <<>> THEN 0
             ELSE DecVal(SubSeq(s, 1, Len(s) - 1)) * 10 + DigitVal(s[Len(s)])

\* Number(str) on strings over digits and other characters: "" is 0, a run
\* of digits is its decimal value, anything else is NaN.
Number(s) == IF \A i \in 1..Len(s) : IsDigit(s[i]) THEN <<DecVal(s)>> ELSE NaN

\* str.split(":")
RECURSIVE Split(_)
Split(s) ==
  IF \A i \in 1..Len(s) : s[i] # ":" THEN <<s>>
  ELSE LET k == CHOOSE i \in 1..Len(s) :
                   s[i] = ":" /\ \A j \in 1..(i - 1) : s[j] # ":"
       IN  <<SubSeq(s, 1, k - 1)>> \o Split(SubSeq(s, k + 1, Len(s)))

\* Number(parts[i]) where a missing element is undefined, and Number(undefined) is NaN
NumberAt(parts, i) == IF i <= Len(parts) THEN Number(parts[i]) ELSE NaN

\* JS arithmetic and comparisons with NaN
NumAdd(a, b) == IF IsNaN(a) \/ IsNaN(b) THEN NaN ELSE <<a[1] + b[1]>>
NumMul(a, b) == IF IsNaN(a) \/ IsNaN(b) THEN NaN ELSE <<a[1] * b[1]>>
NumEq(a, b) == ~IsNaN(a) /\ ~IsNaN(b) /\ a[1] = b[1]
NumLt(a, b) == ~IsNaN(a) /\ ~IsNaN(b) /\ a[1] < b[1]
NumGt(a, b) == NumLt(b, a)
NumGe(a, b) == ~IsNaN(a) /\ ~IsNaN(b) /\ a[1] >= b[1]

----------------------------------------------------------------------------
(* Dates *)

MinutesPerDay == 1440

DayKeys == {"mon", "tue", "wed", "thu", "fri", "sat", "sun"}

GetDay(d) == (d \div MinutesPerDay) % 7
GetHours(d) == (d % MinutesPerDay) \div 60
GetMinutes(d) == d % 60
StartOfDay(d) == d - (d % MinutesPerDay)

\* d.setHours(h, m, 0, 0): same calendar day, overflowing values roll over
SetHours(d, h, m) == StartOfDay(d) + h * 60 + m

\* d.setDate(d.getDate() + 1)
AddDay(d) == d + MinutesPerDay

----------------------------------------------------------------------------
(* app/api/search-google/route.ts: time formatting *)

\* String(n) for a natural number
RECURSIVE Str(_)
Str(n) == IF n < 10 THEN <<Digits[n + 1]>>
          ELSE Str(n \div 10) \o <<Digits[(n % 10) + 1]>>

\* s.padStart(2, "0")
PadStart2(s) == IF Len(s) >= 2 THEN s
                ELSE IF Len(s) = 1 THEN <<"0">> \o s ELSE <<"0", "0">>

\* x ?? 0, an absent number being <<>>
OrZero(x) == IF x = <<>> THEN 0 ELSE x[1]

hhmm(h, m) == PadStart2(Str(OrZero(h))) \o <<":">> \o PadStart2(Str(OrZero(m)))

normalizeCloseHHMM(h, m) ==
  IF OrZero(h) = 0 /\ OrZero(m) = 0 THEN <<"2", "4", ":", "0", "0">>
  ELSE hhmm(h, m)

----------------------------------------------------------------------------
(* lib/time.ts *)

dayKeyFromDate(d) ==
  LET map == <<"sun", "mon", "tue", "wed", "thu", "fri", "sat">>
  IN  map[GetDay(d) + 1]

\* variant: the index is not wrapped, so Monday has no previous weekday
prevDayKey_noWrap(day) ==
  LET order == <<"mon", "tue", "wed", "thu", "fri", "sat", "sun">>
      idx == (CHOOSE i \in 1..7 : order[i] = day) - 1
  IN  IF idx - 1 < 0 THEN "undefined" ELSE order[(idx - 1) + 1]

prevDayKey(day) ==
  LET order == <<"mon", "tue", "wed", "thu", "fri", "sat", "sun">>
      idx == (CHOOSE i \in 1..7 : order[i] = day) - 1
  IN  order[((idx - 1 + 7) % 7) + 1]

minutesFromHHMM(str) ==
  LET parts == Split(str)
      h == NumberAt(parts, 1)
      m == NumberAt(parts, 2)
  IN  NumAdd(NumMul(h, <<60>>), m)

\* variant: a missing weekday is read as one window covering the whole day
RangesOf_openAllDay(h, day) ==
  IF day \in DOMAIN h THEN h[day]
  ELSE <<<<(<<"0", "0", ":", "0", "0">>), (<<"2", "4", ":", "0", "0">>)>>>>

\* hours[day] ?? []
RangesOf(h, day) == IF day \in DOMAIN h THEN h[day] ELSE <<>>

\* variant: a cross-midnight window opens strictly after its open minute
RECURSIVE isOpenInRanges_strictOpen(_, _)
isOpenInRanges_strictOpen(ranges, minutes) ==
  IF ranges = <<>> THEN FALSE
  ELSE LET open == minutesFromHHMM(ranges[1][1])
           close == minutesFromHHMM(ranges[1][2])
       IN  IF NumEq(close, open)
           THEN isOpenInRanges_strictOpen(Tail(ranges), minutes)
           ELSE IF NumGt(close, open)
                THEN IF NumGe(<<minutes>>, open) /\ NumLt(<<minutes>>, close)
                     THEN TRUE
                     ELSE isOpenInRanges_strictOpen(Tail(ranges), minutes)
                ELSE IF NumGt(<<minutes>>, open)
                     THEN TRUE
                     ELSE isOpenInRanges_strictOpen(Tail(ranges), minutes)

RECURSIVE isOpenInRanges(_, _)
isOpenInRanges(ranges, minutes) ==
  IF ranges = <<>> THEN FALSE
  ELSE LET open == minutesFromHHMM(ranges[1][1])
           close == minutesFromHHMM(ranges[1][2])
       IN  IF NumEq(close, open) THEN isOpenInRanges(Tail(ranges), minutes)
           ELSE IF NumGt(close, open)
                THEN IF NumGe(<<minutes>>, open) /\ NumLt(<<minutes>>, close)
                     THEN TRUE
                     ELSE isOpenInRanges(Tail(ranges), minutes)
                ELSE IF NumGe(<<minutes>>, open)
                     THEN TRUE
                     ELSE isOpenInRanges(Tail(ranges), minutes)

\* variant: the spillover bound is inclusive (minutes <= close)
RECURSIVE SpilloverOpen_inclusive(_, _)
SpilloverOpen_inclusive(prevRanges, minutes) ==
  IF prevRanges = <<>> THEN FALSE
  ELSE LET open == minutesFromHHMM(prevRanges[1][1])
           close == minutesFromHHMM(prevRanges[1][2])
       IN  IF NumLt(close, open) /\ NumGe(close, <<minutes>>)
           THEN TRUE
           ELSE SpilloverOpen_inclusive(Tail(prevRanges), minutes)

\* the spillover loop of isVenueOpenAt over the previous day's windows
RECURSIVE SpilloverOpen(_, _)
SpilloverOpen(prevRanges, minutes) ==
  IF prevRanges = <<>> THEN FALSE
  ELSE LET open == minutesFromHHMM(prevRanges[1][1])
           close == minutesFromHHMM(prevRanges[1][2])
       IN  IF NumLt(close, open) /\ NumLt(<<minutes>>, close)
           THEN TRUE
           ELSE SpilloverOpen(Tail(prevRanges), minutes)

isVenueOpenAt(h, d) ==
  LET day == dayKeyFromDate(d)
      minutes == GetHours(d) * 60 + GetMinutes(d)
  IN  IF isOpenInRanges(RangesOf(h, day), minutes) THEN TRUE
      ELSE SpilloverOpen(RangesOf(h, prevDayKey(day)), minutes)

----------------------------------------------------------------------------
(* lib/closeTime.ts *)

\* null, or <<h, m>>
parseHHMM(str) ==
  LET parts == Split(str)
      h == NumberAt(parts, 1)
      m == NumberAt(parts, 2)
  IN  IF IsNaN(h) \/ IsNaN(m) THEN <<>> ELSE <<h[1], m[1]>>

withTime(base, str) ==
  LET t == parseHHMM(str)
  IN  IF t = <<>> THEN <<>>
      ELSE IF t[1] = 24 /\ t[2] = 0
           THEN <<AddDay(SetHours(base, 0, 0))>>
           ELSE <<SetHours(base, t[1], t[2])>>

\* variant: the closing instant itself is inside the window
isWithinRange_inclusive(d, start, end) == d >= start /\ d <= end

isWithinRange(d, start, end) == d >= start /\ d < end

\* variant: a close before the open is not moved to the next day
RECURSIVE CloseInRanges_sameDay(_, _)
CloseInRanges_sameDay(ranges, d) ==
  IF ranges = <<>> THEN <<>>
  ELSE LET open == withTime(d, ranges[1][1])
           close0 == withTime(d, ranges[1][2])
       IN  IF open = <<>> \/ close0 = <<>>
           THEN CloseInRanges_sameDay(Tail(ranges), d)
           ELSE IF isWithinRange(d, open[1], close0[1]) THEN <<close0[1]>>
                ELSE CloseInRanges_sameDay(Tail(ranges), d)

\* the loop of getVenueCloseAt over the day's windows
\* variant: the last window containing the instant wins
RECURSIVE CloseInRanges_lastMatch(_, _)
CloseInRanges_lastMatch(ranges, d) ==
  IF ranges = <<>> THEN <<>>
  ELSE LET later == CloseInRanges_lastMatch(Tail(ranges), d)
           open == withTime(d, ranges[1][1])
           close0 == withTime(d, ranges[1][2])
       IN  IF later # <<>> THEN later
           ELSE IF open = <<>> \/ close0 = <<>> THEN <<>>
           ELSE LET close == IF close0[1] <= open[1] THEN AddDay(close0[1])
                             ELSE close0[1]
                IN  IF isWithinRange(d, open[1], close) THEN <<close>>
                    ELSE <<>>

RECURSIVE CloseInRanges(_, _)
CloseInRanges(ranges, d) ==
  IF ranges = <<>> THEN <<>>
  ELSE LET open == withTime(d, ranges[1][1])
           close0 == withTime(d, ranges[1][2])
       IN  IF open = <<>> \/ close0 = <<>> THEN CloseInRanges(Tail(ranges), d)
           ELSE LET close == IF close0[1] <= open[1] THEN AddDay(close0[1])
                             ELSE close0[1]
                IN  IF isWithinRange(d, open[1], close) THEN <<close>>
                    ELSE CloseInRanges(Tail(ranges), d)

getVenueCloseAt(h, d) == CloseInRanges(RangesOf(h, dayKeyFromDate(d)), d)

\* variant: withTime sets the time on the Date it was given
BaseAfterWithTime_inPlace(base, str) ==
  IF withTime(base, str) = <<>> THEN base ELSE withTime(base, str)[1]

\* the Date passed to withTime once it has returned: d = new Date(base) is
\* a copy, and only the copy is changed
BaseAfterWithTime(base, str) == base

\* the Date passed to getVenueCloseAt once it has returned: withTime is
\* called on it for the open and the close of each window scanned
RECURSIVE AtAfterScan(_, _)
AtAfterScan(ranges, d) ==
  IF ranges = <<>> THEN d
  ELSE IF CloseInRanges(<<ranges[1]>>, d) # <<>>
       THEN BaseAfterWithTime(BaseAfterWithTime(d, ranges[1][1]), ranges[1][2])
       ELSE AtAfterScan(
              Tail(ranges),
              BaseAfterWithTime(BaseAfterWithTime(d, ranges[1][1]), ranges[1][2]))

----------------------------------------------------------------------------
(* app/page.tsx: scoring                                                   *)
(*                                                                         *)
(* Normalised values are fixed-point numbers with One standing for 1.0;    *)
(* the weights are hundredths, so a final score is in units of             *)
(* 1 / (100 * One).  All divisions below are exact.                        *)
(*                                                                         *)
(* A venue is a record [id, hours, onEatClub, website, bookingUrl] where   *)
(* hours is <<>> (absent) or <<h>>, onEatClub is <<>> (undefined) or <<b>>,*)
(* website is a string and bookingUrl is <<>> (null) or <<string>>.        *)

One == 480

CapMinutes == 240

wOpen == 60
wEat == 25
wAction == 15

Max(a, b) == IF a >= b THEN a ELSE b
Min(a, b) == IF a <= b THEN a ELSE b

\* variant: the cap of the clamp is missing
clamp01_noCap(x) == Max(0, x)

clamp01(x) == Max(0, Min(One, x))

\* str.trim().length on strings whose only whitespace is " "
RECURSIVE TrimStart(_)
TrimStart(s) == IF s # <<>> /\ s[1] = " " THEN TrimStart(Tail(s)) ELSE s

RECURSIVE TrimEnd(_)
TrimEnd(s) == IF s # <<>> /\ s[Len(s)] = " "
              THEN TrimEnd(SubSeq(s, 1, Len(s) - 1)) ELSE s

Trim(s) == TrimEnd(TrimStart(s))

\* Boolean(v.website && v.website.trim().length)
hasWebsite(v) == v.website # <<>> /\ Len(Trim(v.website)) # 0

\* Boolean(v.bookingUrl && v.bookingUrl.trim().length)
hasBooking(v) ==
  v.bookingUrl # <<>> /\ v.bookingUrl[1] # <<>> /\ Len(Trim(v.bookingUrl[1])) # 0

BoolNum(b) == IF b THEN 1 ELSE 0

\* the closeAt local of scoreVenue: null when v.hours is falsy
scoreCloseAt(v, atDate) ==
  IF v.hours # <<>> THEN getVenueCloseAt(v.hours[1], atDate) ELSE <<>>

\* variant: the neutral default is also used when the venue is not open
openNorm_neutralWhenClosed(v, atDate) ==
  IF v.hours # <<>> /\ scoreCloseAt(v, atDate) # <<>>
  THEN clamp01((Max(0, scoreCloseAt(v, atDate)[1] - atDate) * One) \div CapMinutes)
  ELSE One \div 2

openNorm(v, atDate) ==
  IF v.hours # <<>>
  THEN LET c == scoreCloseAt(v, atDate)
       IN  IF c # <<>>
           THEN clamp01((Max(0, c[1] - atDate) * One) \div CapMinutes)
           ELSE 0
  ELSE One \div 2

eatClubNorm(v) == IF v.onEatClub = <<TRUE>> THEN One ELSE 0

actionNorm(v) == clamp01(((BoolNum(hasWebsite(v)) + BoolNum(hasBooking(v))) * One) \div 2)

\* variant: the deal weight is applied to the actionability bonus as well
scoreVenue_swappedWeight(v, atDate) ==
  wOpen * openNorm(v, atDate) + wEat * eatClubNorm(v) + wEat * actionNorm(v)

scoreVenue(v, atDate) ==
  wOpen * openNorm(v, atDate) + wEat * eatClubNorm(v) + wAction * actionNorm(v)

\* what scoreVenue returns, with its JavaScript type: the function is
\* declared to return a number and returns the weighted sum
ScoreResult(v, atDate) == [type |-> "number", value |-> scoreVenue(v, atDate)]

----------------------------------------------------------------------------
(* app/page.tsx: selection *)

Undefined == [undefined |-> TRUE]

\* variant: the random value can be 1
RandomIndex_inclusive(len, j) == ((j + 1) * len) \div RandDen

\* Math.floor(Math.random() * len) for the random value j / RandDen
RandomIndex(len, j) == (j * len) \div RandDen

\* the values arr[Math.floor(Math.random() * arr.length)] can take
pickRandom(arr) ==
  {IF RandomIndex(Len(arr), j) < Len(arr)
   THEN arr[RandomIndex(Len(arr), j) + 1]
   ELSE Undefined : j \in 0..(RandDen - 1)}

\* list.map((v) => ({ v, s: scoreVenue(v, atDate) }))
RECURSIVE MapScored(_, _)
MapScored(list, atDate) ==
  IF list = <<>> THEN <<>>
  ELSE <<[v |-> list[1], s |-> scoreVenue(list[1], atDate)]>>
         \o MapScored(Tail(list), atDate)

\* variant: a venue is placed before the venues of equal score
RECURSIVE InsertDesc_unstable(_, _)
InsertDesc_unstable(sorted, x) ==
  IF sorted = <<>> THEN <<x>>
  ELSE IF x.s - sorted[1].s >= 0 THEN <<x>> \o sorted
       ELSE <<sorted[1]>> \o InsertDesc_unstable(Tail(sorted), x)

\* Array.prototype.sort with (a, b) => b.s - a.s: stable, descending by s
RECURSIVE InsertDesc(_, _)
InsertDesc(sorted, x) ==
  IF sorted = <<>> THEN <<x>>
  ELSE IF x.s - sorted[1].s > 0 THEN <<x>> \o sorted
       ELSE <<sorted[1]>> \o InsertDesc(Tail(sorted), x)

RECURSIVE SortDesc(_)
SortDesc(scored) ==
  IF scored = <<>> THEN <<>>
  ELSE InsertDesc(SortDesc(SubSeq(scored, 1, Len(scored) - 1)),
                  scored[Len(scored)])

TopFractionPct == 25

\* variant: the slice size is rounded down
topCount_floor(len, pct) == Max(1, (len * pct) \div 100)

\* Math.max(1, Math.ceil(scored.length * topFraction))
topCount(len, pct) == Max(1, (len * pct + 99) \div 100)

\* scored.slice(0, n).map((x) => x.v)
TopSlice(scored, n) == [i \in 1..Min(n, Len(scored)) |-> scored[i].v]

\* the top slice of the sorted list
TopOfSorted(scored, pct) == TopSlice(scored, topCount(Len(scored), pct))

\* the values pickFromTopScored can return
pickFromTopScored(list, atDate, pct) ==
  pickRandom(TopOfSorted(SortDesc(MapScored(list, atDate)), pct))

----------------------------------------------------------------------------
(* Inputs of the hours engine *)

T0000 == <<"0", "0", ":", "0", "0">>
T0200 == <<"0", "2", ":", "0", "0">>
T2200 == <<"2", "2", ":", "0", "0">>
T2400 == <<"2", "4", ":", "0", "0">>
TBad  == <<"2", "?", ":", "0", "0">>

TimeStrs == {T0200, T2200, TBad}

Windows == TimeStrs \X TimeStrs

SampleMinutes == {0, 90, 120, 121, 600, 1320, 1410, 1439}

Instants == {day * MinutesPerDay + m : day \in 0..LastDay, m \in SampleMinutes}

EmptyHours == [k \in DayKeys |-> <<>>]

\* out[d].push(w) for each entry <<d, w>> in order
RECURSIVE PushAll(_, _)
PushAll(h, entries) ==
  IF entries = <<>> THEN h
  ELSE PushAll([h EXCEPT ![entries[1][1]] = Append(@, entries[1][2])],
               Tail(entries))

EntryLists(E) == UNION {[1..n -> E] : n \in 0..MaxWindows}

\* the page before any plan request: no plan, no error, nothing in flight
PlanIdle ==
  /\ datetime = [kind |-> "empty"]
  /\ useNearMe = FALSE
  /\ coords = <<>>
  /\ loading = FALSE
  /\ error = <<>>
  /\ nightPlan = <<>>
  /\ venues = <<>>
  /\ count = 0
  /\ places = <<>>
  /\ results = <<>>
  /\ arrival = <<>>
  /\ pools = <<>>
  /\ calls = <<>>

----------------------------------------------------------------------------
(* The hours engine as a state machine: one evaluation of a schedule at an *)
(* instant, first the open check, then the closing-instant lookup.         *)

InitHours ==
  /\ at \in Instants
  /\ \E es \in EntryLists({dayKeyFromDate(at), prevDayKey(dayKeyFromDate(at))}
                          \X Windows) :
       hours = PushAll(EmptyHours, es)
  /\ pc = "start"
  /\ isOpen = FALSE
  /\ closeAt = <<>>
  /\ venue = <<>>
  /\ norms = <<>>
  /\ score = <<>>
  /\ pool = <<>>
  /\ picked = <<>>
  /\ PlanIdle

CallIsVenueOpenAt ==
  /\ pc = "start"
  /\ isOpen' = isVenueOpenAt(hours, at)
  /\ pc' = "checked"
  /\ UNCHANGED <<hours, at, closeAt, rankVars, planVars>>

CallGetVenueCloseAt ==
  /\ pc = "checked"
  /\ closeAt' = getVenueCloseAt(hours, at)
  /\ at' = AtAfterScan(RangesOf(hours, dayKeyFromDate(at)), at)
  /\ pc' = "done"
  /\ UNCHANGED <<hours, isOpen, rankVars, planVars>>

Next == CallIsVenueOpenAt \/ CallGetVenueCloseAt

Spec == InitHours /\ [][Next]_vars

\* schedules with windows closing at midnight, written 00:00 or 24:00
MidnightWindows == {T0000, T0200, T2200, T2400} \X {T0000, T2400}

InitMidnight ==
  /\ at \in Instants
  /\ \E es \in EntryLists({dayKeyFromDate(at), prevDayKey(dayKeyFromDate(at))}
                          \X MidnightWindows) :
       hours = PushAll(EmptyHours, es)
  /\ pc = "start"
  /\ isOpen = FALSE
  /\ closeAt = <<>>
  /\ venue = <<>>
  /\ norms = <<>>
  /\ score = <<>>
  /\ pool = <<>>
  /\ picked = <<>>
  /\ PlanIdle

SpecMidnight == InitMidnight /\ [][Next]_vars

\* schedules over the whole week, possibly lacking day keys: windows are
\* listed under the instant's weekday and the weekdays one before, two
\* before and one after it
T1000 == <<"1", "0", ":", "0", "0">>

WeekWindows == {<<T0200, T1000>>, <<T0200, T2200>>, <<T2200, T0200>>}

WeekMinutes == {90, 120, 600, 1320}

WeekInstants == {day * MinutesPerDay + m : day \in 0..LastDay, m \in WeekMinutes}

WeekLen == 2

\* the weekday k days after the weekday of instant d
DayAfter(d, k) == dayKeyFromDate(d + k * MinutesPerDay)

WeekDaysOf(d) == {DayAfter(d, 0), DayAfter(d, 6), DayAfter(d, 5), DayAfter(d, 1)}

\* schedule h without the keys in drop
Without(h, drop) == [k \in (DOMAIN h) \ drop |-> h[k]]

InitWeek ==
  /\ at \in WeekInstants
  /\ \E n \in 0..WeekLen :
       \E es \in [1..n -> WeekDaysOf(at) \X WeekWindows] :
         \E drop \in SUBSET {DayAfter(at, 0), DayAfter(at, 6)} :
           hours = Without(PushAll(EmptyHours, es), drop)
  /\ pc = "start"
  /\ isOpen = FALSE
  /\ closeAt = <<>>
  /\ venue = <<>>
  /\ norms = <<>>
  /\ score = <<>>
  /\ pool = <<>>
  /\ picked = <<>>
  /\ PlanIdle

SpecWeek == InitWeek /\ [][Next]_vars

----------------------------------------------------------------------------
(* scoreVenue as a state machine: one venue scored at one instant.        *)

ScoreTimeStrs == {T0200, T2200, T2400, TBad}

ScoreMinutes == {119, 120, 600, 1079, 1080, 1081, 1200, 1319, 1320, 1321, 1439}

ScoreInstants ==
  {day * MinutesPerDay + m : day \in 0..LastDay, m \in ScoreMinutes}

\* the schedules of the scored venues: absent, empty, or one window on the
\* instant's weekday or the weekday before
ScoreSchedules(d) ==
  {<<>>, <<EmptyHours>>}
    \cup {<<PushAll(EmptyHours, <<<<k, w>>>>)>> :
            k \in {dayKeyFromDate(d), prevDayKey(dayKeyFromDate(d))},
            w \in ScoreTimeStrs \X ScoreTimeStrs}

Blank == <<" ">>
Url == <<"h", " ", "p">>

Venues(d) ==
  [id : {1},
   hours : ScoreSchedules(d),
   onEatClub : {<<>>, <<TRUE>>, <<FALSE>>},
   website : {<<>>, Blank, Url},
   bookingUrl : {<<>>, <<Blank>>, <<Url>>}]

InitScore ==
  /\ at \in ScoreInstants
  /\ venue \in Venues(at)
  /\ hours = IF venue.hours = <<>> THEN EmptyHours ELSE venue.hours[1]
  /\ pc = "toScore"
  /\ isOpen = FALSE
  /\ closeAt = <<>>
  /\ norms = <<>>
  /\ score = <<>>
  /\ pool = <<>>
  /\ picked = <<>>
  /\ PlanIdle

CallScoreVenue ==
  /\ pc = "toScore"
  /\ closeAt' = scoreCloseAt(venue, at)
  /\ norms' = [openNorm |-> openNorm(venue, at),
               eatClubNorm |-> eatClubNorm(venue),
               actionNorm |-> actionNorm(venue)]
  /\ score' = <<scoreVenue(venue, at)>>
  /\ pc' = "scored"
  /\ UNCHANGED <<hours, at, isOpen, venue, pool, picked, planVars>>

NextScore == CallScoreVenue

SpecScore == InitScore /\ [][NextScore]_vars

----------------------------------------------------------------------------
(* pickFromTopScored as a state machine: one pool, one random draw.        *)

\* Monday 22:00
PickInstants == {MinutesPerDay + 1320}

\* three kinds of venue: open for four more hours with a website, no
\* schedule data but on the deal platform, closed with a website
Profiles ==
  {[hours |-> <<PushAll(EmptyHours, <<<<"mon", <<T2200, T0200>>>>>>)>>,
    onEatClub |-> <<FALSE>>, website |-> Url, bookingUrl |-> <<>>],
   [hours |-> <<>>,
    onEatClub |-> <<TRUE>>, website |-> Blank, bookingUrl |-> <<>>],
   [hours |-> <<EmptyHours>>,
    onEatClub |-> <<>>, website |-> Url, bookingUrl |-> <<>>]}

WithId(p, i) ==
  [id |-> i, hours |-> p.hours, onEatClub |-> p.onEatClub,
   website |-> p.website, bookingUrl |-> p.bookingUrl]

\* pools of n venues with ids 1..n
Pools(n) == {[i \in 1..n |-> WithId(f[i], i)] : f \in [1..n -> Profiles]}

InitPick ==
  /\ at \in PickInstants
  /\ \E n \in 1..MaxPool : pool \in Pools(n)
  /\ pc = "toPick"
  /\ hours = EmptyHours
  /\ isOpen = FALSE
  /\ closeAt = <<>>
  /\ venue = <<>>
  /\ norms = <<>>
  /\ score = <<>>
  /\ picked = <<>>
  /\ PlanIdle

CallPickFromTopScored ==
  /\ pc = "toPick"
  /\ \E v \in pickFromTopScored(pool, at, TopFractionPct) : picked' = <<v>>
  /\ pc' = "picked"
  /\ UNCHANGED <<hours, at, isOpen, closeAt, venue, norms, score, pool, planVars>>

NextPick == CallPickFromTopScored

SpecPick == InitPick /\ [][NextPick]_vars

\* pools of low scores: venues that score 0 (a schedule with no window, no
\* deal, a blank website) and venues that score 0.075 (the same with a
\* website)
LowProfiles ==
  {[hours |-> <<EmptyHours>>,
    onEatClub |-> <<>>, website |-> Blank, bookingUrl |-> <<>>],
   [hours |-> <<EmptyHours>>,
    onEatClub |-> <<FALSE>>, website |-> Url, bookingUrl |-> <<>>]}

LowPools(n) == {[i \in 1..n |-> WithId(f[i], i)] : f \in [1..n -> LowProfiles]}

InitPickLow ==
  /\ at \in PickInstants
  /\ \E n \in 1..MaxPool : pool \in LowPools(n)
  /\ pc = "toPick"
  /\ hours = EmptyHours
  /\ isOpen = FALSE
  /\ closeAt = <<>>
  /\ venue = <<>>
  /\ norms = <<>>
  /\ score = <<>>
  /\ picked = <<>>
  /\ PlanIdle

SpecPickLow == InitPickLow /\ [][NextPick]_vars

----------------------------------------------------------------------------
(* api/search-google/route.ts, api/search-nearby/route.ts: the two search  *)
(* routes.                                                                 *)
(*                                                                         *)
(* The value of the datetime-local input is [kind |-> "empty"] (the empty  *)
(* string), [kind |-> "garbage"] (a non-empty string no Date parses) or    *)
(* [kind |-> "local", time |-> t] (a string denoting the instant t).       *)
(* A place of the Places API is [id, types, websiteUri, roh], roh being    *)
(* <<>> (no periods array) or <<periods>>; a period is [open, close], each *)
(* <<>> (absent) or <<[day, hour, minute]>>.  Names sort as ids do.        *)

\* the time value of new Date(v)
NewDate(v) == IF v.kind = "local" THEN <<v.time>> ELSE NaN

parseDateTime(v) ==
  IF v.kind = "empty" THEN <<>>
  ELSE IF IsNaN(NewDate(v)) THEN <<>> ELSE NewDate(v)

DayMap == <<"sun", "mon", "tue", "wed", "thu", "fri", "sat">>

dayKey(day) == IF day + 1 \in DOMAIN DayMap THEN DayMap[day + 1] ELSE "mon"

\* variant: a period without a close is filed as open until the end of
\* its opening day
RECURSIVE PeriodEntries_openEnded(_)
PeriodEntries_openEnded(periods) ==
  IF periods = <<>> THEN <<>>
  ELSE (IF periods[1].open = <<>> THEN <<>>
        ELSE << <<dayKey(periods[1].open[1].day),
                  <<hhmm(periods[1].open[1].hour, periods[1].open[1].minute),
                    IF periods[1].close = <<>>
                    THEN <<"2", "4", ":", "0", "0">>
                    ELSE normalizeCloseHHMM(periods[1].close[1].hour,
                                            periods[1].close[1].minute)>> >> >>)
       \o PeriodEntries_openEnded(Tail(periods))

\* the <<day key, window>> pushed for each period, in order
RECURSIVE PeriodEntries(_)
PeriodEntries(periods) ==
  IF periods = <<>> THEN <<>>
  ELSE (IF periods[1].open = <<>> \/ periods[1].close = <<>>
        THEN <<>>
        ELSE << <<dayKey(periods[1].open[1].day),
                  <<hhmm(periods[1].open[1].hour, periods[1].open[1].minute),
                    normalizeCloseHHMM(periods[1].close[1].hour,
                                       periods[1].close[1].minute)>> >> >>)
       \o PeriodEntries(Tail(periods))

googleHoursToHours(roh) ==
  IF roh = <<>> THEN EmptyHours ELSE PushAll(EmptyHours, PeriodEntries(roh[1]))

\* search-google: the inferredCategory of a place
inferredCategory(types) ==
  IF "restaurant" \in types THEN "Restaurant"
  ELSE IF "cafe" \in types THEN "Cafe"
  ELSE IF "bakery" \in types THEN "Dessert"
  ELSE "Activity"

\* search-nearby: inferCategory
inferCategory(types) ==
  IF types \cap {"restaurant", "meal_takeaway", "meal_delivery"} # {}
  THEN "Restaurant"
  ELSE IF "cafe" \in types THEN "Cafe"
  ELSE IF types \cap {"bakery", "ice_cream_shop", "dessert_shop"} # {}
  THEN "Dessert"
  ELSE IF types \cap {"bar", "night_club", "pub"} # {} THEN "Bar"
  ELSE "Activity"

\* search-nearby: categoryToIncludedTypes
categoryToIncludedTypes(category) ==
  CASE category = "Restaurant" -> {"restaurant"}
    [] category = "Cafe" -> {"cafe"}
    [] category = "Dessert" -> {"bakery", "ice_cream_shop"}
    [] category = "Bar" -> {"bar", "night_club", "pub"}
    [] category = "Activity" ->
         {"tourist_attraction", "museum", "art_gallery", "movie_theater",
          "bowling_alley", "amusement_park", "zoo", "aquarium", "stadium",
          "park", "spa", "gym", "casino", "escape_room"}
    [] OTHER -> {}

\* the Venue a route builds from a place, with the category it inferred
VenueOfPlace(p, category) ==
  [id |-> p.id, category |-> category, website |-> p.websiteUri,
   bookingUrl |-> <<>>, hours |-> <<googleHoursToHours(p.roh)>>,
   onEatClub |-> <<>>]

\* search-google: the three filters, applied to the places in order
RECURSIVE GoogleOpenAtTime(_, _, _)
GoogleOpenAtTime(ps, category, d) ==
  IF ps = <<>> THEN <<>>
  ELSE (IF /\ ps[1].websiteUri # <<>>
           /\ (category # "" => inferredCategory(ps[1].types) = category)
           /\ isVenueOpenAt(googleHoursToHours(ps[1].roh), d)
        THEN <<VenueOfPlace(ps[1], inferredCategory(ps[1].types))>>
        ELSE <<>>)
       \o GoogleOpenAtTime(Tail(ps), category, d)

\* search-nearby: the two filters, applied to the places in order
RECURSIVE NearbyOpenAtTime(_, _)
NearbyOpenAtTime(ps, d) ==
  IF ps = <<>> THEN <<>>
  ELSE (IF /\ (inferCategory(ps[1].types) = "Activity" \/ ps[1].websiteUri # <<>>)
           /\ isVenueOpenAt(googleHoursToHours(ps[1].roh), d)
        THEN <<VenueOfPlace(ps[1], inferCategory(ps[1].types))>>
        ELSE <<>>)
       \o NearbyOpenAtTime(Tail(ps), d)

\* .sort((a, b) => a.name.localeCompare(b.name)): stable, ascending
RECURSIVE InsertByName(_, _)
InsertByName(sorted, x) ==
  IF sorted = <<>> THEN <<x>>
  ELSE IF x.id < sorted[1].id THEN <<x>> \o sorted
       ELSE <<sorted[1]>> \o InsertByName(Tail(sorted), x)

RECURSIVE SortByName(_)
SortByName(list) ==
  IF list = <<>> THEN <<>>
  ELSE InsertByName(SortByName(SubSeq(list, 1, Len(list) - 1)), list[Len(list)])

Ok(list) == [ok |-> TRUE, count |-> Len(list), venues |-> list]

InvalidDatetime == [ok |-> FALSE, status |-> 400, error |-> "Invalid datetime"]

ServerError == [ok |-> FALSE, status |-> 500, error |-> "Server error"]

\* GET of search-google for the places the text search returned
GoogleGET(dt, category, ps) ==
  IF parseDateTime(dt) = <<>> THEN InvalidDatetime
  ELSE Ok(SortByName(GoogleOpenAtTime(ps, category, parseDateTime(dt)[1])))

\* GET of search-nearby for the places the nearby search returned
NearbyGET(dt, ps) ==
  IF parseDateTime(dt) = <<>> THEN InvalidDatetime
  ELSE Ok(SortByName(NearbyOpenAtTime(ps, parseDateTime(dt)[1])))

----------------------------------------------------------------------------
(* app/page.tsx: planMyNight.                                              *)
(*                                                                         *)
(* A fetchCategory promise is Pending, Rejected or Fulfilled(list).        *)

Categories == <<"Restaurant", "Activity", "Bar">>

Pending == [state |-> "pending"]

Rejected == [state |-> "rejected"]

Fulfilled(list) == [state |-> "fulfilled", value |-> list]

\* the eatclub-check service lists every fourth venue, starting with 2
EatClubListed(id) == id % 4 = 2

\* checkEatClub for an answered request: Boolean(obj.onEatClub)
checkEatClub(id) == EatClubListed(id)

\* out.findIndex((x) => x.id === id), counted from 1; 0 when absent
FindIndex(out, id) ==
  IF \E i \in 1..Len(out) : out[i].id = id
  THEN CHOOSE i \in 1..Len(out) :
         out[i].id = id /\ \A j \in 1..(i - 1) : out[j].id # id
  ELSE 0

\* out[idx] = { ...out[idx], onEatClub: r.onEatClub } when idx >= 0
SetEatClub(out, id, flag) ==
  IF FindIndex(out, id) = 0 THEN out
  ELSE [out EXCEPT ![FindIndex(out, id)] = [@ EXCEPT !.onEatClub = <<flag>>]]

\* list.filter((v) => typeof v.onEatClub === "undefined")
RECURSIVE NeedEatClub(_)
NeedEatClub(list) ==
  IF list = <<>> THEN <<>>
  ELSE (IF list[1].onEatClub = <<>> THEN <<list[1]>> ELSE <<>>)
       \o NeedEatClub(Tail(list))

RECURSIVE ApplyChecks(_, _)
ApplyChecks(out, need) ==
  IF need = <<>> THEN out
  ELSE ApplyChecks(SetEatClub(out, need[1].id, checkEatClub(need[1].id)),
                   Tail(need))

\* variant: only the venues found on the deal platform are returned
enrichEatClub_listedOnly(list) ==
  SelectSeq(ApplyChecks(list, NeedEatClub(list)),
            LAMBDA v : v.onEatClub = <<TRUE>>)

enrichEatClub(list) == ApplyChecks(list, NeedEatClub(list))

\* fetchCategory: the list a response resolves to
fetchCategory(r) ==
  IF ~r.ok THEN <<>>
  ELSE IF "venues" \notin DOMAIN r THEN <<>> ELSE r.venues

\* the response of the endpoint planMyNight chose
EndpointGET(nearMe, dt, category, ps) ==
  IF nearMe THEN NearbyGET(dt, ps) ELSE GoogleGET(dt, category, ps)

\* variant: the lists are bound in the order the fetches settled
Destructure_byArrival(res, arr) ==
  [restaurantsRaw |-> res[arr[1]].value,
   activitiesRaw |-> res[arr[2]].value,
   barsRaw |-> res[arr[3]].value]

\* const [restaurantsRaw, activitiesRaw, barsRaw] = await Promise.all([...])
Destructure(res, arr) ==
  [restaurantsRaw |-> res[Categories[1]].value,
   activitiesRaw |-> res[Categories[2]].value,
   barsRaw |-> res[Categories[3]].value]

\* variant: the plan is refused only when all three lists are empty
NotEnough_allEmpty(raw) ==
  Len(raw.restaurantsRaw) = 0 /\ Len(raw.activitiesRaw) = 0 /\ Len(raw.barsRaw) = 0

\* !restaurantsRaw.length || !activitiesRaw.length || !barsRaw.length
NotEnough(raw) ==
  Len(raw.restaurantsRaw) = 0 \/ Len(raw.activitiesRaw) = 0 \/ Len(raw.barsRaw) = 0

\* list.filter((v) => !used.has(v.id))
RECURSIVE NoDup(_, _)
NoDup(list, used) ==
  IF list = <<>> THEN <<>>
  ELSE (IF list[1].id \in used THEN <<>> ELSE <<list[1]>>)
       \o NoDup(Tail(list), used)

\* variant: no fallback to the unfiltered list
DedupPool_strict(list, used) == NoDup(list, used)

\* variant: the chosen ids are not excluded
DedupPool_unfiltered(list, used) == list

\* xNoDup.length ? xNoDup : x
DedupPool(list, used) ==
  IF Len(NoDup(list, used)) # 0 THEN NoDup(list, used) ELSE list

\* variant: sort reorders the argument itself
ListAfterPick_sortInPlace(list, atDate) ==
  TopSlice(SortDesc(MapScored(list, atDate)), Len(list))

\* the argument of pickFromTopScored once it has returned: map builds the
\* array that sort reorders, the argument keeps its order and its records
ListAfterPick(list, atDate) == list

PickCall(list, atDate) ==
  [list |-> list, atDate |-> <<atDate>>, after |-> ListAfterPick(list, atDate)]

\* dereferencing .id of undefined throws, which planMyNight catches
Thrown(made) == [thrown |-> TRUE, calls |-> made]

\* the third pick and setNightPlan
BarOutcomes(r, a, bars, atDate, made) ==
  {[thrown |-> FALSE,
    plan |-> [restaurant |-> r, activity |-> a, bar |-> b],
    calls |-> Append(made, PickCall(DedupPool(bars, {r.id, a.id}), atDate))] :
     b \in pickFromTopScored(DedupPool(bars, {r.id, a.id}), atDate, TopFractionPct)}

\* the second pick and used.add(activity.id)
ActivityOutcomes(r, activities, bars, atDate, made) ==
  UNION {IF a = Undefined THEN {Thrown(made)}
         ELSE BarOutcomes(r, a, bars, atDate, made) :
           a \in pickFromTopScored(DedupPool(activities, {r.id}), atDate,
                                   TopFractionPct)}

\* the three weighted picks: every outcome the random draws allow
ComposeOutcomes(restaurants, activities, bars, atDate) ==
  UNION {IF r = Undefined THEN {Thrown(<<PickCall(restaurants, atDate)>>)}
         ELSE ActivityOutcomes(
                r, activities, bars, atDate,
                <<PickCall(restaurants, atDate),
                  PickCall(DedupPool(activities, {r.id}), atDate)>>) :
           r \in pickFromTopScored(restaurants, atDate, TopFractionPct)}

LocationError == <<"Location not available.">>

NotEnoughError ==
  <<"Not enough open venues to plan a full night. Try another time.">>

NetworkError == <<"Could not plan night. Network error.">>

----------------------------------------------------------------------------
(* planMyNight as a state machine: the click, the three category fetches   *)
(* settling in any order, the join, the enrichment and the composition.    *)

\* the catalogue holds the places 1..PlanPlaces
PlanPlaces == 4

At(day, hour, minute) == <<[day |-> day, hour |-> hour, minute |-> minute]>>

\* four kinds of place, repeating: open until 23:00, until midnight, until
\* 02:00, and one whose only complete period is on Tuesday
PlaceTypes(i) ==
  CASE i % 4 = 1 -> {"restaurant", "bar"}
    [] i % 4 = 2 -> {"restaurant", "tourist_attraction"}
    [] i % 4 = 3 -> {"bar", "museum"}
    [] OTHER -> {"restaurant", "bar", "park"}

PlacePeriods(i) ==
  CASE i % 4 = 1 -> <<[open |-> At(1, <<18>>, <<0>>), close |-> At(1, <<23>>, <<0>>)]>>
    [] i % 4 = 2 -> <<[open |-> At(1, <<18>>, <<>>), close |-> At(2, <<0>>, <<>>)]>>
    [] i % 4 = 3 -> <<[open |-> At(1, <<18>>, <<0>>), close |-> At(2, <<2>>, <<0>>)]>>
    [] OTHER -> <<[open |-> At(0, <<0>>, <<0>>), close |-> <<>>],
                  [open |-> At(2, <<18>>, <<0>>), close |-> At(2, <<23>>, <<0>>)]>>

Place(i) ==
  [id |-> i, types |-> PlaceTypes(i), websiteUri |-> Url, roh |-> <<PlacePeriods(i)>>]

\* the places 1..n a query for the category can return, by descending name
RECURSIVE Matching(_, _)
Matching(category, n) ==
  IF n = 0 THEN <<>>
  ELSE (IF PlaceTypes(n) \cap categoryToIncludedTypes(category) # {}
        THEN <<Place(n)>> ELSE <<>>)
       \o Matching(category, n - 1)

\* the contiguous runs of a list, the empty one included
Runs(list) ==
  {<<>>} \cup {SubSeq(list, a, b) : a \in 1..Len(list), b \in 1..Len(list)}

\* what the Places API returns for the three queries
Worlds(n) ==
  {[Restaurant |-> r, Activity |-> a, Bar |-> b] :
     r \in Runs(Matching("Restaurant", n)),
     a \in Runs(Matching("Activity", n)),
     b \in Runs(Matching("Bar", n))}

\* every query returns all the places that match it
FullWorld(n) ==
  [Restaurant |-> Matching("Restaurant", n),
   Activity |-> Matching("Activity", n),
   Bar |-> Matching("Bar", n)]

PlanDatetimes ==
  {[kind |-> "empty"], [kind |-> "garbage"]}
    \cup {[kind |-> "local", time |-> t] : t \in PickInstants}

Here == <<[lat |-> 0, lng |-> 0]>>

InitPlan ==
  /\ datetime \in PlanDatetimes
  /\ useNearMe \in BOOLEAN
  /\ coords \in (IF useNearMe THEN {<<>>, Here} ELSE {<<>>})
  /\ places \in (IF datetime.kind = "local" THEN Worlds(PlanPlaces)
                  ELSE {FullWorld(PlanPlaces)})
  /\ loading = FALSE
  /\ error = <<>>
  /\ nightPlan = <<>>
  /\ venues = <<>>
  /\ count = 0
  /\ results = <<>>
  /\ arrival = <<>>
  /\ pools = <<>>
  /\ calls = <<>>
  /\ pc = "idle"
  /\ at \in PickInstants
  /\ hours = EmptyHours
  /\ isOpen = FALSE
  /\ closeAt = <<>>
  /\ venue = <<>>
  /\ norms = <<>>
  /\ score = <<>>
  /\ pool = <<>>
  /\ picked = <<>>

planFrame == <<hours, at, isOpen, closeAt, rankVars, datetime, useNearMe, coords,
               places, venues, count>>

\* the click: the synchronous part of planMyNight up to the first await
PlanMyNight ==
  /\ pc = "idle"
  /\ nightPlan' = <<>>
  /\ IF useNearMe /\ coords = <<>>
     THEN /\ error' = LocationError
          /\ loading' = FALSE
          /\ results' = results
          /\ pc' = "planDone"
     ELSE /\ error' = <<>>
          /\ loading' = TRUE
          /\ results' = [Restaurant |-> Pending, Activity |-> Pending, Bar |-> Pending]
          /\ pc' = "fetching"
  /\ UNCHANGED <<planFrame, arrival, pools, calls>>

\* one fetchCategory promise settles: with the route's answer, with a
\* server error answer, or by the fetch failing
FetchSettlesWith(c, outcome) ==
  /\ pc = "fetching"
  /\ results[c] = Pending
  /\ results' = [results EXCEPT ![c] = outcome]
  /\ arrival' = Append(arrival, c)
  /\ UNCHANGED <<planFrame, pc, loading, error, nightPlan, pools, calls>>

FetchSettles(c) ==
  \/ FetchSettlesWith(c, Rejected)
  \/ FetchSettlesWith(c, Fulfilled(fetchCategory(ServerError)))
  \/ FetchSettlesWith(
       c, Fulfilled(fetchCategory(EndpointGET(useNearMe, datetime, c, places[c]))))

\* Promise.all rejected: the catch and finally blocks
FetchesRejected ==
  /\ pc = "fetching"
  /\ \E k \in 1..3 : results[Categories[k]] = Rejected
  /\ error' = NetworkError
  /\ loading' = FALSE
  /\ pc' = "planDone"
  /\ UNCHANGED <<planFrame, nightPlan, results, arrival, pools, calls>>

\* Promise.all fulfilled: the pool check, then the enrichment is started
FetchesJoined ==
  /\ pc = "fetching"
  /\ \A k \in 1..3 : results[Categories[k]].state = "fulfilled"
  /\ pools' = Destructure(results, arrival)
  /\ IF NotEnough(Destructure(results, arrival))
     THEN /\ error' = NotEnoughError
          /\ loading' = FALSE
          /\ pc' = "planDone"
     ELSE /\ pc' = "enriching"
          /\ UNCHANGED <<error, loading>>
  /\ UNCHANGED <<planFrame, nightPlan, results, arrival, calls>>

\* the enrichment fulfilled: the three picks, setNightPlan, finally
EnrichJoined ==
  /\ pc = "enriching"
  /\ \E o \in ComposeOutcomes(enrichEatClub(pools.restaurantsRaw),
                              enrichEatClub(pools.activitiesRaw),
                              enrichEatClub(pools.barsRaw),
                              NewDate(datetime)[1]) :
       /\ calls' = calls \o o.calls
       /\ IF o.thrown
          THEN error' = NetworkError /\ nightPlan' = nightPlan
          ELSE error' = error /\ nightPlan' = <<o.plan>>
  /\ loading' = FALSE
  /\ pc' = "planDone"
  /\ UNCHANGED <<planFrame, results, arrival, pools>>

\* an eatclub-check fetch failed: the catch and finally blocks
EnrichRejected ==
  /\ pc = "enriching"
  /\ error' = NetworkError
  /\ loading' = FALSE
  /\ pc' = "planDone"
  /\ UNCHANGED <<planFrame, nightPlan, results, arrival, pools, calls>>

NextPlan ==
  \/ PlanMyNight
  \/ \E k \in 1..3 : FetchSettles(Categories[k])
  \/ FetchesRejected
  \/ FetchesJoined
  \/ EnrichJoined
  \/ EnrichRejected

SpecPlan == InitPlan /\ [][NextPlan]_vars

----------------------------------------------------------------------------
(* The composition step alone, on larger pools: the state planMyNight is   *)
(* in once the three fetches are joined, for every choice of three        *)
(* non-empty runs of the venues search-nearby lists at the instant.        *)

\* the catalogue of the composition step holds the places 1..ComposePlaces
ComposePlaces == 10

RECURSIVE Reverse(_)
Reverse(list) ==
  IF list = <<>> THEN <<>> ELSE Append(Reverse(Tail(list)), list[1])

\* the places behind a list of venues, by descending name
PlacesOf(list) == Reverse([i \in 1..Len(list) |-> Place(list[i].id)])

\* the non-empty runs of what search-nearby answers for the category
ComposePools(dt, category) ==
  Runs(fetchCategory(NearbyGET(dt, Matching(category, ComposePlaces)))) \ {<<>>}

InitCompose ==
  /\ datetime \in {dt \in PlanDatetimes : dt.kind = "local"}
  /\ useNearMe = TRUE
  /\ coords = Here
  /\ \E r \in ComposePools(datetime, "Restaurant") :
       \E a \in ComposePools(datetime, "Activity") :
         \E b \in ComposePools(datetime, "Bar") :
           /\ places = [Restaurant |-> PlacesOf(r), Activity |-> PlacesOf(a),
                        Bar |-> PlacesOf(b)]
           /\ results = [Restaurant |-> Fulfilled(r), Activity |-> Fulfilled(a),
                         Bar |-> Fulfilled(b)]
  /\ arrival = Categories
  /\ pools = Destructure(results, arrival)
  /\ loading = TRUE
  /\ error = <<>>
  /\ nightPlan = <<>>
  /\ venues = <<>>
  /\ count = 0
  /\ calls = <<>>
  /\ pc = "enriching"
  /\ at \in PickInstants
  /\ hours = EmptyHours
  /\ isOpen = FALSE
  /\ closeAt = <<>>
  /\ venue = <<>>
  /\ norms = <<>>
  /\ score = <<>>
  /\ pool = <<>>
  /\ picked = <<>>

NextCompose == EnrichJoined

SpecCompose == InitCompose /\ [][NextCompose]_vars

----------------------------------------------------------------------------
(* The ingestion of one place: the route converts the opening hours the    *)
(* places service returned, then the schedule is evaluated at the instant. *)

\* the periods of the places service: from 18:00 of a day until 23:00, or
\* until 02:00 or 00:00 of the next day, or without a close; and the single
\* period of a venue that never closes
IngestDays == {0, 1, 6}

AlwaysOpen == [open |-> At(0, <<0>>, <<0>>), close |-> <<>>]

IngestPeriods ==
  {AlwaysOpen}
    \cup UNION {{[open |-> At(d, <<18>>, <<0>>), close |-> c] :
                   c \in {<<>>, At(d, <<23>>, <<0>>),
                          At((d + 1) % 7, <<2>>, <<0>>),
                          At((d + 1) % 7, <<0>>, <<>>)}} : d \in IngestDays}

IngestLen == 2

\* regularOpeningHours: absent, or a list of periods
IngestHours ==
  {<<>>} \cup {<<ps>> : ps \in UNION {[1..n -> IngestPeriods] : n \in 0..IngestLen}}

InitIngest ==
  /\ at \in WeekInstants
  /\ \E roh \in IngestHours :
       places = <<[id |-> 1, types |-> {"restaurant"}, websiteUri |-> Url,
                   roh |-> roh]>>
  /\ hours = <<>>
  /\ pc = "fetched"
  /\ isOpen = FALSE
  /\ closeAt = <<>>
  /\ venue = <<>>
  /\ norms = <<>>
  /\ score = <<>>
  /\ pool = <<>>
  /\ picked = <<>>
  /\ datetime = [kind |-> "empty"]
  /\ useNearMe = FALSE
  /\ coords = <<>>
  /\ loading = FALSE
  /\ error = <<>>
  /\ nightPlan = <<>>
  /\ venues = <<>>
  /\ count = 0
  /\ results = <<>>
  /\ arrival = <<>>
  /\ pools = <<>>
  /\ calls = <<>>

\* hours: googleHoursToHours(p.regularOpeningHours)
ConvertHours ==
  /\ pc = "fetched"
  /\ hours' = googleHoursToHours(places[1].roh)
  /\ pc' = "start"
  /\ UNCHANGED <<at, isOpen, closeAt, rankVars, planVars>>

NextIngest == ConvertHours \/ CallIsVenueOpenAt \/ CallGetVenueCloseAt

SpecIngest == InitIngest /\ [][NextIngest]_vars

----------------------------------------------------------------------------
(* The page: runSearch and planMyNight, one invocation after another. The  *)
(* Search and Plan buttons are disabled while loading, and Plan also while *)
(* no venue is listed.                                                     *)

SearchLocationError ==
  <<"Click \"Use Near Me\" to fetch your location first.">>

SearchNetworkError == <<"Network error.">>

\* variant: a failed search keeps the stored plan
SearchFailed_keepsPlan(msg) ==
  [venues |-> <<>>, nightPlan |-> nightPlan, count |-> 0, error |-> <<msg>>]

\* setVenues([]); setNightPlan(null); setCount(0); setError(msg)
SearchFailed(msg) ==
  [venues |-> <<>>, nightPlan |-> <<>>, count |-> 0, error |-> <<msg>>]

\* the catalogue of the page holds the places 1..PagePlaces
PagePlaces == 3

\* what the Places API returns for the query of runSearch
AllPlaces(n) == [i \in 1..n |-> Place(n + 1 - i)]

PageWorld ==
  [Search |-> AllPlaces(PagePlaces),
   Restaurant |-> Matching("Restaurant", PagePlaces),
   Activity |-> Matching("Activity", PagePlaces),
   Bar |-> Matching("Bar", PagePlaces)]

\* the page after construction
InitPage ==
  /\ datetime \in {dt \in PlanDatetimes : dt.kind # "empty"}
  /\ useNearMe \in BOOLEAN
  /\ coords \in (IF useNearMe THEN {<<>>, Here} ELSE {<<>>})
  /\ places = PageWorld
  /\ loading = FALSE
  /\ error = <<>>
  /\ nightPlan = <<>>
  /\ venues = <<>>
  /\ count = 0
  /\ results = <<>>
  /\ arrival = <<>>
  /\ pools = <<>>
  /\ calls = <<>>
  /\ pc = "idle"
  /\ at \in PickInstants
  /\ hours = EmptyHours
  /\ isOpen = FALSE
  /\ closeAt = <<>>
  /\ venue = <<>>
  /\ norms = <<>>
  /\ score = <<>>
  /\ pool = <<>>
  /\ picked = <<>>

pageFrame == <<hours, at, isOpen, closeAt, rankVars, datetime, useNearMe, coords,
               places, arrival, pools, calls>>

\* the mount effect or the Search button: runSearch up to its first await
RunSearch ==
  /\ pc = "idle"
  /\ IF useNearMe /\ coords = <<>>
     THEN /\ loading' = FALSE
          /\ error' = SearchLocationError
          /\ results' = results
          /\ pc' = "searchDone"
     ELSE /\ loading' = TRUE
          /\ error' = <<>>
          /\ results' = [Search |-> Pending]
          /\ pc' = "searching"
  /\ UNCHANGED <<pageFrame, nightPlan, venues, count>>

\* the fetch of runSearch settles: with the route's answer, with a server
\* error answer, or by fetch or res.json() failing
SearchSettlesWith(outcome) ==
  /\ pc = "searching"
  /\ results' = [results EXCEPT !.Search = outcome]
  /\ IF outcome = Rejected
     THEN /\ error' = SearchNetworkError
          /\ venues' = SearchFailed("Network error.").venues
          /\ nightPlan' = SearchFailed("Network error.").nightPlan
          /\ count' = SearchFailed("Network error.").count
          /\ loading' = FALSE
          /\ pc' = "searchDone"
     ELSE IF ~outcome.value.ok
          THEN /\ venues' = SearchFailed(outcome.value.error).venues
               /\ nightPlan' = SearchFailed(outcome.value.error).nightPlan
               /\ count' = SearchFailed(outcome.value.error).count
               /\ error' = SearchFailed(outcome.value.error).error
               /\ loading' = FALSE
               /\ pc' = "searchDone"
          ELSE /\ venues' = outcome.value.venues
               /\ nightPlan' = <<>>
               /\ count' = outcome.value.count
               /\ pc' = "searchEnriching"
               /\ UNCHANGED <<error, loading>>
  /\ UNCHANGED pageFrame

SearchSettles ==
  \/ SearchSettlesWith(Rejected)
  \/ SearchSettlesWith(Fulfilled(ServerError))
  \/ SearchSettlesWith(
       Fulfilled(EndpointGET(useNearMe, datetime, "", places.Search)))

\* the enrichment of runSearch fulfilled: setVenues(enriched), finally
SearchEnriched ==
  /\ pc = "searchEnriching"
  /\ venues' = enrichEatClub(results.Search.value.venues)
  /\ loading' = FALSE
  /\ pc' = "searchDone"
  /\ UNCHANGED <<pageFrame, error, nightPlan, count, results>>

\* an eatclub-check fetch of runSearch failed: the catch and finally blocks
SearchEnrichRejected ==
  /\ pc = "searchEnriching"
  /\ error' = SearchNetworkError
  /\ venues' = SearchFailed("Network error.").venues
  /\ nightPlan' = SearchFailed("Network error.").nightPlan
  /\ count' = SearchFailed("Network error.").count
  /\ loading' = FALSE
  /\ pc' = "searchDone"
  /\ UNCHANGED <<pageFrame, results>>

\* the Plan button, enabled while venues are listed
ClickPlan == venues # <<>> /\ PlanMyNight

\* the handler has returned and its locals are gone; the buttons are
\* enabled again
Returned ==
  /\ pc \in {"searchDone", "planDone"}
  /\ pc' = "idle"
  /\ results' = <<>>
  /\ arrival' = <<>>
  /\ pools' = <<>>
  /\ calls' = <<>>
  /\ UNCHANGED <<hours, at, isOpen, closeAt, rankVars, datetime, useNearMe,
                 coords, places, loading, error, nightPlan, venues, count>>

\* the steps the event loop takes once an awaited promise has settled
PageContinues ==
  \/ SearchSettles
  \/ SearchEnrichRejected
  \/ SearchEnriched
  \/ \E k \in 1..3 : FetchSettles(Categories[k])
  \/ FetchesRejected
  \/ FetchesJoined
  \/ EnrichRejected
  \/ EnrichJoined

NextPage == RunSearch \/ ClickPlan \/ PageContinues \/ Returned

SpecPage == InitPage /\ [][NextPage]_vars

\* every awaited fetch settles and the continuation of a settled promise
\* is run
SpecPageFair == SpecPage /\ WF_vars(PageContinues)

----------------------------------------------------------------------------
(* Vocabulary of the properties *)

MinuteOfDay(d) == d % MinutesPerDay

Today == dayKeyFromDate(at)

\* the weekday before the instant's weekday, by calendar arithmetic
Yesterday == dayKeyFromDate(at + 6 * MinutesPerDay)

ValidWindow(w) == ~IsNaN(minutesFromHHMM(w[1])) /\ ~IsNaN(minutesFromHHMM(w[2]))

OpenMin(w) == minutesFromHHMM(w[1])[1]
CloseMin(w) == minutesFromHHMM(w[2])[1]

\* the schedule consists of the single window w, listed under day D
OnlyWindow(D, w) == hours = [EmptyHours EXCEPT ![D] = <<w>>]

\* window w, listed under the instant's weekday, contains minute m
ContainsToday(w, m) ==
  /\ ValidWindow(w)
  /\ IF CloseMin(w) > OpenMin(w)
     THEN OpenMin(w) <= m /\ m < CloseMin(w)
     ELSE m >= OpenMin(w)

\* window w, listed under the previous weekday, spills over minute m
SpillsOver(w, m) ==
  ValidWindow(w) /\ CloseMin(w) < OpenMin(w) /\ m < CloseMin(w)

\* index of the first window of ranges satisfying P, 0 if none
FirstIndex(ranges, P(_)) ==
  IF \E i \in 1..Len(ranges) : P(ranges[i])
  THEN CHOOSE i \in 1..Len(ranges) :
         P(ranges[i]) /\ \A j \in 1..(i - 1) : ~P(ranges[j])
  ELSE 0

----------------------------------------------------------------------------
(* C1: for every schedule and instant, getVenueCloseAt returns a non-null  *)
(* closing instant if and only if isVenueOpenAt returns true.              *)
C1_OpenIffCloseAt == pc = "done" => (isOpen <=> closeAt # <<>>)

(* C2: for a schedule whose only window is a cross-midnight window (o, c)  *)
(* with c < o listed under weekday D, isVenueOpenAt is true on D for every *)
(* minute >= o, true on the following weekday for every minute < c, and    *)
(* false on the following weekday for every minute >= c.                   *)
C2_CrossMidnightOpen ==
  pc # "start" =>
    \A D \in DayKeys : \A w \in Windows :
      (OnlyWindow(D, w) /\ ValidWindow(w) /\ CloseMin(w) < OpenMin(w)) =>
        /\ (Today = D /\ MinuteOfDay(at) >= OpenMin(w)) => isOpen
        /\ (Yesterday = D /\ MinuteOfDay(at) < CloseMin(w)) => isOpen
        /\ (Yesterday = D /\ MinuteOfDay(at) >= CloseMin(w)) => ~isOpen

\* Monday (22:00, 02:00) evaluated at Tuesday 01:30: open by spillover
C2_Witness ==
  /\ pc # "start"
  /\ OnlyWindow("mon", <<T2200, T0200>>)
  /\ at = 2 * MinutesPerDay + 90
  /\ isOpen

(* C3: when the instant is on the opening day of a cross-midnight window   *)
(* (close <= open) at or after its open time, getVenueCloseAt returns the  *)
(* window's close time-of-day on the next calendar day; for a same-day     *)
(* window it returns the close time on the instant's own calendar day.     *)
(* The window is the first one of the day's list that contains the         *)
(* instant.                                                                *)
C3_CloseProjection ==
  pc = "done" =>
    LET ranges == hours[Today]
        m == MinuteOfDay(at)
        InsideW(w) == ContainsToday(w, m)
        i == FirstIndex(ranges, InsideW)
    IN  i # 0 =>
          closeAt = <<StartOfDay(at)
                      + (IF CloseMin(ranges[i]) <= OpenMin(ranges[i])
                         THEN MinutesPerDay + CloseMin(ranges[i])
                         ELSE CloseMin(ranges[i]))>>

\* Monday 23:30 inside Monday (22:00, 02:00) closes Tuesday 02:00
C3_Witness ==
  /\ pc = "done"
  /\ OnlyWindow("mon", <<T2200, T0200>>)
  /\ at = MinutesPerDay + 1410
  /\ closeAt = <<2 * MinutesPerDay + 120>>

(* C4: when the instant falls in the spillover of a cross-midnight window  *)
(* listed under the previous weekday (minutes < close), the closing        *)
(* instant reported is that window's close time-of-day on the instant's    *)
(* own calendar day, not null.                                             *)
C4_SpilloverClose ==
  pc = "done" =>
    LET m == MinuteOfDay(at)
        InsideW(w) == ContainsToday(w, m)
        SpillW(w) == SpillsOver(w, m)
        i == FirstIndex(hours[Yesterday], SpillW)
    IN  (FirstIndex(hours[Today], InsideW) = 0 /\ i # 0) =>
          closeAt = <<StartOfDay(at) + CloseMin(hours[Yesterday][i])>>

(* C5: a window with equal open and close times contributes no open time:  *)
(* when every window of the schedule is such a window, isVenueOpenAt is    *)
(* false and getVenueCloseAt is null at every instant.                     *)
C5_EqualWindowClosed ==
  pc = "done" =>
    ((\A D \in DayKeys : \A i \in 1..Len(hours[D]) :
         ValidWindow(hours[D][i]) /\ OpenMin(hours[D][i]) = CloseMin(hours[D][i]))
       => (~isOpen /\ closeAt = <<>>))

(* C6: a window whose close is written 00:00 behaves exactly like the     *)
(* same window written with close 24:00 in isVenueOpenAt and               *)
(* getVenueCloseAt: open from its open time through 23:59 of the listed    *)
(* day, closing instant 00:00 of the next calendar day, no spillover.      *)

\* the close of w is written 00:00
MidnightClose(w) == parseHHMM(w[2]) = <<0, 0>>

\* the schedule with every 00:00 close rewritten as 24:00
As2400(h) ==
  [D \in DOMAIN h |->
     [i \in 1..Len(h[D]) |->
        IF MidnightClose(h[D][i])
        THEN <<h[D][i][1], normalizeCloseHHMM(<<0>>, <<0>>)>>
        ELSE h[D][i]]]

MidnightCloseBehaviour(w, D) ==
  /\ (Today = D /\ MinuteOfDay(at) >= OpenMin(w)) =>
        (isOpen /\ closeAt = <<StartOfDay(at) + MinutesPerDay>>)
  /\ (Yesterday = D) => (~isOpen /\ closeAt = <<>>)

\* the claim as stated, for every open time
C6_Original ==
  pc = "done" =>
    /\ isOpen = isVenueOpenAt(As2400(hours), at)
    /\ closeAt = getVenueCloseAt(As2400(hours), at)
    /\ \A D \in DayKeys : \A w \in MidnightWindows :
         (OnlyWindow(D, w) /\ MidnightClose(w)) => MidnightCloseBehaviour(w, D)

\* amended: the same, for windows whose open time is not 00:00
C6_MidnightCloseAs2400 ==
  pc = "done" =>
    LET Excluded(w) == MidnightClose(w) /\ parseHHMM(w[1]) = <<0, 0>>
    IN  /\ (\A D \in DayKeys : \A i \in 1..Len(hours[D]) : ~Excluded(hours[D][i]))
             => /\ isOpen = isVenueOpenAt(As2400(hours), at)
                /\ closeAt = getVenueCloseAt(As2400(hours), at)
        /\ \A D \in DayKeys : \A w \in MidnightWindows :
             (OnlyWindow(D, w) /\ MidnightClose(w) /\ ~Excluded(w))
               => MidnightCloseBehaviour(w, D)

\* Monday (22:00, 00:00) at Monday 23:59: open, closing Tuesday 00:00
C6_Witness ==
  /\ pc = "done"
  /\ OnlyWindow("mon", <<T2200, T0000>>)
  /\ at = MinutesPerDay + 1439
  /\ isOpen
  /\ closeAt = <<2 * MinutesPerDay>>

(* C7: a window whose open or close string has a non-numeric hour or       *)
(* minute is skipped by isVenueOpenAt and by getVenueCloseAt: a schedule   *)
(* with only such windows is closed and has no closing instant at every    *)
(* instant, and the other windows of a schedule are still evaluated.       *)
C7_MalformedSkipped ==
  pc = "done" =>
    LET Drop(ranges) == SelectSeq(ranges, ValidWindow)
        cleaned == [D \in DayKeys |-> Drop(hours[D])]
    IN  /\ isOpen = isVenueOpenAt(cleaned, at)
        /\ closeAt = getVenueCloseAt(cleaned, at)

(* C8: finalScore = 0.60*openScore + 0.25*dealScore + 0.15*actionability   *)
(* with openScore = clamp01(minutesUntilClose/240), dealScore in {0,1}     *)
(* from the deal-platform flag and actionability = (hasWebsite +           *)
(* hasBooking)/2; a venue closing in exactly 240 minutes with no deal      *)
(* flag, website or booking scores 0.60, and one closing in 120 minutes on *)
(* the deal platform with a website only scores 0.625.                     *)

\* scores of the property, in units of 1/48000
ScoreUnits(x1000) == x1000 * 48

NonBlank(s) == \E i \in 1..Len(s) : s[i] # " "

WebsiteCount == IF NonBlank(venue.website) THEN 1 ELSE 0

BookingCount ==
  IF venue.bookingUrl # <<>> /\ NonBlank(venue.bookingUrl[1]) THEN 1 ELSE 0

DealFlag == IF venue.onEatClub = <<TRUE>> THEN 1 ELSE 0

MinutesUntilClose == closeAt[1] - at

C8_WeightedScore ==
  (pc = "scored" /\ closeAt # <<>>) =>
    LET capped == IF MinutesUntilClose >= 240 THEN 240 ELSE MinutesUntilClose
    IN  /\ score[1] = 120 * capped + 12000 * DealFlag
                        + 3600 * (WebsiteCount + BookingCount)
        /\ (MinutesUntilClose = 240 /\ DealFlag = 0
              /\ WebsiteCount = 0 /\ BookingCount = 0)
             => score[1] = ScoreUnits(600)
        /\ (MinutesUntilClose = 120 /\ DealFlag = 1
              /\ WebsiteCount = 1 /\ BookingCount = 0)
             => score[1] = ScoreUnits(625)

\* a venue closing in 120 minutes, on the deal platform, website only: 0.625
C8_Witness ==
  /\ pc = "scored"
  /\ closeAt # <<>>
  /\ MinutesUntilClose = 120
  /\ DealFlag = 1 /\ WebsiteCount = 1 /\ BookingCount = 0
  /\ score = <<ScoreUnits(625)>>

(* C9: openScore is 0 when the venue has a schedule but the closing        *)
(* instant is null, the neutral 0.5 when the venue has no schedule data,   *)
(* exactly 1 for every venue with 240 or more minutes until close, and     *)
(* below the cap it is non-decreasing in minutes until close.              *)
C9_OpenScoreValues ==
  pc = "scored" =>
    /\ (venue.hours # <<>> /\ closeAt = <<>>) => norms.openNorm = 0
    /\ venue.hours = <<>> => 2 * norms.openNorm = One
    /\ (closeAt # <<>> /\ MinutesUntilClose >= 240) => norms.openNorm = One
    /\ closeAt # <<>> =>
         \A m \in ScoreMinutes :
           LET at2 == StartOfDay(at) + m
               c2 == scoreCloseAt(venue, at2)
           IN  (c2 # <<>> /\ c2[1] - at2 <= MinutesUntilClose)
                 => openNorm(venue, at2) <= norms.openNorm

\* a venue with a schedule that is not inside any window scores openScore 0
C9_Witness ==
  /\ pc = "scored"
  /\ venue.hours # <<>>
  /\ \E D \in DayKeys : venue.hours[1][D] # <<>>
  /\ closeAt = <<>>
  /\ norms.openNorm = 0

(* C10: for every non-empty pool of size n and fraction 0.25, the set of   *)
(* venues pickFromTopScored can return is exactly the top                  *)
(* k = max(1, ceil(n*0.25)) venues of the pool sorted by descending score: *)
(* it never returns a venue ranked below k (for n = 8 only the top 2, for  *)
(* n in 1..3 only the single best) and each of the k top venues is a       *)
(* possible result.                                                        *)

\* the scores of the venues of the pool, in pool order
RECURSIVE ScoresOf(_)
ScoresOf(list) ==
  IF list = <<>> THEN <<>>
  ELSE <<scoreVenue(list[1], at)>> \o ScoresOf(Tail(list))

\* number of venues ranked before the i-th one: higher score, or equal
\* score and earlier in the pool
RankIn(sc, i) ==
  Cardinality({j \in 1..Len(sc) : sc[j] > sc[i] \/ (sc[j] = sc[i] /\ j < i)})

\* max(1, ceil(n / 4))
Quartile(n) == IF n <= 4 THEN 1 ELSE IF n <= 8 THEN 2 ELSE 3

\* the ids of the venues ranked among the first max(1, ceil(n / 4))
TopRanked(sc) ==
  {pool[i].id : i \in {i \in 1..Len(sc) : RankIn(sc, i) < Quartile(Len(sc))}}

C10_TopQuartileOnly ==
  pool # <<>> =>
    \A top \in {TopRanked(ScoresOf(pool))} :
      /\ pc = "picked" => picked[1].id \in top
      /\ pc = "toPick" =>
           \A ids \in {{v.id : v \in pickFromTopScored(pool, at, TopFractionPct)}} :
             /\ ids = top
             /\ Len(pool) = 8 => Cardinality(ids) = 2
             /\ Len(pool) \in 1..3 => Cardinality(ids) = 1

\* a pool of 8 in which the pick is the venue ranked second
C10_Witness ==
  /\ pc = "picked"
  /\ Len(pool) = 8
  /\ \E i \in 1..8 : RankIn(ScoresOf(pool), i) = 1 /\ picked = <<pool[i]>>

(* C21: for every non-empty pool, one whose venues all score 0 included,   *)
(* every value pickFromTopScored can return is a venue of the pool, never  *)
(* undefined.                                                              *)
C21_PickIsMember ==
  pool # <<>> =>
    /\ pc = "toPick" =>
         \A v \in pickFromTopScored(pool, at, TopFractionPct) :
           v # Undefined /\ \E i \in 1..Len(pool) : pool[i] = v
    /\ pc = "picked" =>
         picked[1] # Undefined /\ \E i \in 1..Len(pool) : pool[i] = picked[1]

\* a pick from a pool of several venues that all score 0
C21_Witness ==
  /\ pc = "picked"
  /\ Len(pool) >= 2
  /\ \A i \in 1..Len(pool) : scoreVenue(pool[i], at) = 0
  /\ \E i \in 1..Len(pool) : pool[i] = picked[1]

(* C22: the top slice lists the venues by descending score, venues of      *)
(* equal score in the order of the pool, so it is determined by the pool   *)
(* and the instant; the result is the venue of the slice that the single   *)
(* random draw indexes.                                                    *)
C22_TiesByListOrder ==
  pool # <<>> =>
    \A top \in {TopOfSorted(SortDesc(MapScored(pool, at)), TopFractionPct)} :
      /\ Len(top) = Quartile(Len(pool))
      /\ \A k \in 1..Len(top) :
           \E i \in 1..Len(pool) :
             pool[i] = top[k] /\ RankIn(ScoresOf(pool), i) = k - 1
      /\ pc = "picked" =>
           \E j \in 0..(RandDen - 1) :
             picked[1] = top[RandomIndex(Len(top), j) + 1]

\* eight venues of one score, the slice holds the first two of the pool,
\* and the pick is the second
C22_Witness ==
  /\ pc = "picked"
  /\ Len(pool) = 8
  /\ \A i \in 1..8 : scoreVenue(pool[i], at) = scoreVenue(pool[1], at)
  /\ picked[1] = pool[2]

----------------------------------------------------------------------------
(* Vocabulary of the itinerary properties *)

\* one of the three joined lists is empty
SomeListEmpty == \E k \in DOMAIN pools : Len(pools[k]) = 0

\* a plan is stored
Planned == pc = "planDone" /\ nightPlan # <<>>

Ids(list) == {list[i].id : i \in 1..Len(list)}

FoodId == nightPlan[1].restaurant.id
ActivityId == nightPlan[1].activity.id
BarId == nightPlan[1].bar.id

(* C11: in every stored plan, whatever the random draws, the activity      *)
(* differs from the food pick if the activity pool holds a venue with      *)
(* another id, and the bar differs from both earlier picks if the bar pool *)
(* holds a venue with an id that is neither of them.                       *)
C11_AvoidsCollision ==
  Planned =>
    /\ (Ids(pools.activitiesRaw) \ {FoodId} # {}) => ActivityId # FoodId
    /\ (Ids(pools.barsRaw) \ {FoodId, ActivityId} # {}) =>
         BarId \notin {FoodId, ActivityId}

\* the food pick is in the activity pool and the activity pick is in the
\* bar pool, and both were avoided
C11_Witness ==
  /\ Planned
  /\ FoodId \in Ids(pools.activitiesRaw)
  /\ ActivityId \in Ids(pools.barsRaw)
  /\ Cardinality({FoodId, ActivityId, BarId}) = 3

(* C12: every stored plan has three pairwise distinct ids whenever some    *)
(* choice of one venue per pool has three pairwise distinct ids.           *)
C12_DistinctWhenPossible ==
  Planned =>
    ((\E r \in Ids(pools.restaurantsRaw) :
        \E a \in Ids(pools.activitiesRaw) \ {r} :
          Ids(pools.barsRaw) \ {r, a} # {})
       => Cardinality({FoodId, ActivityId, BarId}) = 3)

(* C13: when every venue of the activity pool is the food pick, or every   *)
(* venue of the bar pool is one of the two earlier picks, the pick is made *)
(* from the unfiltered pool: the composition still stores a plan, without  *)
(* an error, and the plan repeats an id.                                   *)
C13_FallbackToUnfiltered ==
  pc = "planDone" =>
    /\ nightPlan # <<>>
    /\ error = <<>>
    /\ Len(calls) = 3
    /\ (Ids(pools.activitiesRaw) \ {FoodId} = {}) =>
         /\ calls[2].list = enrichEatClub(pools.activitiesRaw)
         /\ ActivityId = FoodId
    /\ (Ids(pools.barsRaw) \ {FoodId, ActivityId} = {}) =>
         /\ calls[3].list = enrichEatClub(pools.barsRaw)
         /\ BarId \in {FoodId, ActivityId}

\* the activity pool holds nothing but the food pick
C13_Witness ==
  /\ Planned
  /\ Ids(pools.activitiesRaw) = {FoodId}
  /\ ActivityId = FoodId

(* C14: once the three fetches are joined with at least one empty list,    *)
(* planMyNight has ended with the not-enough-venues error, loading off,   *)
(* no call of pickFromTopScored made and no plan stored.                   *)
C14_EmptyPoolFails ==
  (pools # <<>> /\ SomeListEmpty) =>
    /\ pc = "planDone"
    /\ error = NotEnoughError
    /\ ~loading
    /\ calls = <<>>
    /\ nightPlan = <<>>

\* only the bar list is empty, for a datetime the route accepts
C14_Witness ==
  /\ pc = "planDone"
  /\ pools # <<>>
  /\ datetime.kind = "local"
  /\ Len(pools.restaurantsRaw) > 0
  /\ Len(pools.activitiesRaw) > 0
  /\ Len(pools.barsRaw) = 0
  /\ error = NotEnoughError

----------------------------------------------------------------------------
(* C15: neither isVenueOpenAt nor getVenueCloseAt changes the schedule or  *)
(* the instant it is given, and once both have returned, calling them      *)
(* again with the same schedule and instant gives the results they gave.   *)
C15_PureEvaluation ==
  [][/\ hours' = hours
     /\ at' = at
     /\ pc' # "start" => isOpen' = isVenueOpenAt(hours', at')
     /\ pc' = "done" => closeAt' = getVenueCloseAt(hours', at')]_vars

\* a closing instant was built on the next calendar day, from two windows
C15_Witness ==
  /\ pc = "done"
  /\ Len(hours[Today]) = 2
  /\ closeAt # <<>>
  /\ closeAt[1] >= StartOfDay(at) + MinutesPerDay
  /\ isOpen

----------------------------------------------------------------------------
(* C16: a plan request whose datetime does not parse, and whose three      *)
(* fetches were all answered, ends with the invalid-datetime error, and    *)
(* pickFromTopScored is never called with an invalid instant.              *)
C16_InvalidDatetimeSurfaced ==
  /\ \A i \in 1..Len(calls) : ~IsNaN(calls[i].atDate)
  /\ (pc = "planDone" /\ pools # <<>> /\ parseDateTime(datetime) = <<>>) =>
       /\ error = <<InvalidDatetime.error>>
       /\ calls = <<>>

(* C17: the composition starts only when all three fetches have settled,   *)
(* whatever their order; each list is the answer to the request of its own *)
(* category; and a stored plan is one of the plans the three answers allow,*)
(* a set that does not depend on the order of arrival.                     *)
C17_AnyCompletionOrder ==
  /\ pc = "fetching" => (pools = <<>> /\ calls = <<>> /\ nightPlan = <<>>)
  /\ pools # <<>> =>
       /\ Len(arrival) = 3
       /\ \A k \in 1..3 : results[Categories[k]].state = "fulfilled"
       /\ pools.restaurantsRaw = results["Restaurant"].value
       /\ pools.activitiesRaw = results["Activity"].value
       /\ pools.barsRaw = results["Bar"].value
  /\ Planned =>
       \E o \in ComposeOutcomes(enrichEatClub(results["Restaurant"].value),
                                 enrichEatClub(results["Activity"].value),
                                 enrichEatClub(results["Bar"].value),
                                 NewDate(datetime)[1]) :
         ~o.thrown /\ o.plan = nightPlan[1]

\* a plan composed after the fetches settled in the reverse order, from
\* three different lists
C17_Witness ==
  /\ Planned
  /\ arrival = <<"Bar", "Activity", "Restaurant">>
  /\ pools.restaurantsRaw # pools.activitiesRaw
  /\ pools.restaurantsRaw # pools.barsRaw
  /\ pools.activitiesRaw # pools.barsRaw

(* C18: the composition step changes none of its inputs: the three fetched *)
(* lists stay as they were, and every list passed to pickFromTopScored     *)
(* (which scores each of its venues) has the same venues in the same order *)
(* after the call as before.                                               *)
C18_InputsUnchanged ==
  [][/\ pools' = pools
     /\ results' = results
     /\ \A i \in 1..Len(calls') : calls'[i].after = calls'[i].list]_vars

\* the first list passed was not in descending order of score
C18_Witness ==
  /\ Planned
  /\ Len(calls[1].list) >= 2
  /\ scoreVenue(calls[1].list[1], calls[1].atDate[1])
       < scoreVenue(calls[1].list[2], calls[1].atDate[1])
  /\ calls[1].after = calls[1].list

(* C19: every score scoreVenue returns is at least 0 and at most 1.        *)
C19_ScoreInUnitInterval ==
  pc = "scored" => (score[1] >= 0 /\ score[1] <= 100 * One)

\* the highest score: four hours or more left, a deal, website and booking
C19_Witness ==
  /\ pc = "scored"
  /\ score[1] = 100 * One
  /\ MinutesUntilClose > CapMinutes

(* C20: the value scoreVenue returns is an object that carries finalScore, *)
(* openScore, dealScore and actionabilityScore.                            *)
C20_ReturnsBreakdown ==
  pc = "scored" =>
    /\ score = <<ScoreResult(venue, at).value>>
    /\ ScoreResult(venue, at).type = "object"
    /\ {"finalScore", "openScore", "dealScore", "actionabilityScore"}
         \subseteq DOMAIN ScoreResult(venue, at)

----------------------------------------------------------------------------
(* Vocabulary of the whole-week properties *)

\* the windows listed under weekday D, none when the schedule lacks D
Listed(D) == IF D \in DOMAIN hours THEN hours[D] ELSE <<>>

SameDay(w) == CloseMin(w) > OpenMin(w)

\* minute m lies in the same-day window w, closing minute excluded
InHalfOpen(w, m) == OpenMin(w) <= m /\ m < CloseMin(w)

\* some window listed under D satisfies P
SomeListed(D, P(_)) == \E i \in 1..Len(Listed(D)) : P(Listed(D)[i])

(* C23: a weekday missing from the schedule counts as an empty window      *)
(* list: at an instant on that weekday, with no cross-midnight window      *)
(* under the previous weekday, isVenueOpenAt is false and getVenueCloseAt  *)
(* is null; both calls return a value.                                     *)
C23_MissingDayClosed ==
  LET CrossesMidnight(w) == ~SameDay(w)
  IN  (pc = "done" /\ Today \notin DOMAIN hours
         /\ ~SomeListed(Yesterday, CrossesMidnight)) =>
        isOpen = FALSE /\ closeAt = <<>>

\* the instant's weekday is missing, the previous weekday lists a same-day
\* window, another weekday a cross-midnight one: closed, no closing instant
C23_Witness ==
  /\ pc = "done"
  /\ Today \notin DOMAIN hours
  /\ Listed(Yesterday) = <<(<<T0200, T2200>>)>>
  /\ \E D \in DOMAIN hours : hours[D] = <<(<<T2200, T0200>>)>>
  /\ isOpen = FALSE
  /\ closeAt = <<>>

(* C24: a same-day window (close > open) is half-open. When the instant's  *)
(* weekday lists same-day windows only and nothing spills over from the    *)
(* previous weekday, the venue is open at minute m exactly when            *)
(* open <= m < close for one of them, and getVenueCloseAt returns a        *)
(* closing instant under exactly the same condition.                       *)
C24_SameDayHalfOpen ==
  LET m == MinuteOfDay(at)
      Inside(w) == InHalfOpen(w, m)
      Other(w) == ~SameDay(w)
  IN  (pc = "done" /\ ~SomeListed(Today, Other) /\ ~SomeListed(Yesterday, Other)) =>
        /\ isOpen <=> SomeListed(Today, Inside)
        /\ closeAt # <<>> <=> SomeListed(Today, Inside)

\* (02:00, 10:00) evaluated at 10:00 of its day: closed at the closing minute
C24_Witness ==
  /\ pc = "done"
  /\ Listed(Today) = <<(<<T0200, T1000>>)>>
  /\ Listed(Yesterday) = <<>>
  /\ MinuteOfDay(at) = 600
  /\ isOpen = FALSE
  /\ closeAt = <<>>

(* C25: with several windows on one day the windows are tried one by one   *)
(* in list order: isVenueOpenAt is true as soon as any window of the day   *)
(* contains the instant, and getVenueCloseAt returns the close of the      *)
(* first containing window of the list, whatever the later windows are.    *)
C25_FirstWindowWins ==
  pc = "done" =>
    \A i \in 1..Len(Listed(Today)) :
      LET w == Listed(Today)[i]
          m == MinuteOfDay(at)
      IN  ContainsToday(w, m) =>
            /\ isOpen
            /\ (\A j \in 1..(i - 1) : ~ContainsToday(Listed(Today)[j], m)) =>
                 closeAt = <<StartOfDay(at) + CloseMin(w)
                             + (IF SameDay(w) THEN 0 ELSE MinutesPerDay)>>

\* (02:00, 10:00) listed before the overlapping (02:00, 22:00): at 02:00
\* the closing instant is 10:00, not 22:00
C25_Witness ==
  /\ pc = "done"
  /\ Listed(Today) = <<(<<T0200, T1000>>), (<<T0200, T2200>>)>>
  /\ MinuteOfDay(at) = 120
  /\ isOpen
  /\ closeAt = <<StartOfDay(at) + 600>>

(* C26: the venue is open exactly when a window of the instant's weekday   *)
(* contains the instant or a cross-midnight window of the weekday          *)
(* immediately before it (Sunday before Monday) has a close after the      *)
(* instant's minute; same-day windows of the previous weekday and windows  *)
(* of any earlier weekday never open the venue.                            *)
C26_SpilloverFromPreviousDayOnly ==
  LET m == MinuteOfDay(at)
      Inside(w) == ContainsToday(w, m)
      Spill(w) == SpillsOver(w, m)
  IN  pc = "done" =>
        (isOpen <=> (SomeListed(Today, Inside) \/ SomeListed(Yesterday, Spill)))

\* Monday 01:30 with Sunday (02:00, 22:00) and Saturday (22:00, 02:00): closed
C26_Witness ==
  /\ pc = "done"
  /\ at = MinutesPerDay + 90
  /\ Listed("mon") = <<>>
  /\ Listed("sun") = <<(<<T0200, T2200>>)>>
  /\ Listed("sat") = <<(<<T2200, T0200>>)>>
  /\ isOpen = FALSE

----------------------------------------------------------------------------
(* C27: the open filter and the scorer agree: every venue with a schedule  *)
(* that isVenueOpenAt reports open at the instant, with at least one full  *)
(* minute left before its window closes, gets openScore > 0 from           *)
(* scoreVenue at that instant, and openScore = 0 is given only to venues   *)
(* that isVenueOpenAt reports closed.                                      *)
C27_FilterScorerConsistent ==
  (pc = "scored" /\ venue.hours # <<>>) =>
    /\ isVenueOpenAt(venue.hours[1], at) => norms.openNorm > 0
    /\ norms.openNorm = 0 => ~isVenueOpenAt(venue.hours[1], at)

\* the violating case: open by spillover from the previous weekday's
\* (22:00, 02:00) at 01:59, one minute before closing, yet openScore = 0
C27_SpilloverScoredZero ==
  /\ pc = "scored"
  /\ venue.hours = <<PushAll(EmptyHours, <<(<<Yesterday, (<<T2200, T0200>>)>>)>>)>>
  /\ MinuteOfDay(at) = 119
  /\ isVenueOpenAt(venue.hours[1], at)
  /\ closeAt = <<>>
  /\ norms.openNorm = 0

----------------------------------------------------------------------------
\* list holds the venue v
Holds(list, v) == \E i \in 1..Len(list) : list[i] = v

(* C28: planMyNight never calls pickFromTopScored with an empty list: the  *)
(* enriched pools are as long as the fetched ones and an emptied pool is   *)
(* replaced by the unfiltered one, so in every stored plan restaurant,     *)
(* activity and bar are defined venues, each one a venue of the enriched   *)
(* pool fetched for its own category.                                      *)
C28_NeverPicksFromEmpty ==
  /\ \A i \in 1..Len(calls) : calls[i].list # <<>>
  /\ pools # <<>> =>
       \A k \in DOMAIN pools : Len(enrichEatClub(pools[k])) = Len(pools[k])
  /\ Planned =>
       /\ Len(calls) = 3
       /\ Undefined \notin
            {nightPlan[1].restaurant, nightPlan[1].activity, nightPlan[1].bar}
       /\ Holds(enrichEatClub(pools.restaurantsRaw), nightPlan[1].restaurant)
       /\ Holds(enrichEatClub(pools.activitiesRaw), nightPlan[1].activity)
       /\ Holds(enrichEatClub(pools.barsRaw), nightPlan[1].bar)

\* a stored plan whose bar pool held nothing but the two earlier picks:
\* the third call received the whole bar pool and returned one of its venues
C28_Witness ==
  /\ Planned
  /\ Len(calls) = 3
  /\ NoDup(enrichEatClub(pools.barsRaw), {FoodId, ActivityId}) = <<>>
  /\ calls[3].list = enrichEatClub(pools.barsRaw)
  /\ calls[3].list # <<>>
  /\ Holds(calls[3].list, nightPlan[1].bar)

----------------------------------------------------------------------------
\* the periods of the ingested place, none when it has no opening hours
Periods == IF places[1].roh = <<>> THEN <<>> ELSE places[1].roh[1]

\* the periods that have both an open and a close, opening on weekday D
FiledUnder(D) ==
  SelectSeq(Periods,
            LAMBDA p : /\ p.open # <<>>
                       /\ p.close # <<>>
                       /\ dayKeyFromDate(p.open[1].day * MinutesPerDay) = D)

(* C29: googleHoursToHours files every period that has a close under its   *)
(* opening weekday and nowhere else, in order, and drops every period      *)
(* without a close; so a venue whose periods all lack a close, the         *)
(* always-open venue in particular, gets seven empty day lists and         *)
(* isVenueOpenAt is false for it at every instant.                         *)
C29_FiledUnderOpeningDay ==
  pc # "fetched" =>
    /\ DOMAIN hours = DayKeys
    /\ \A D \in DayKeys :
         /\ Len(hours[D]) = Len(FiledUnder(D))
         /\ \A i \in 1..Len(hours[D]) :
              hours[D][i][1] = hhmm(FiledUnder(D)[i].open[1].hour,
                                    FiledUnder(D)[i].open[1].minute)
    /\ (\A i \in 1..Len(Periods) : Periods[i].close = <<>>) =>
         /\ hours = EmptyHours
         /\ pc \in {"checked", "done"} => isOpen = FALSE

\* the venue that never closes, asked at 22:00: empty schedule, not open
C29_Witness ==
  /\ pc = "done"
  /\ Periods = <<AlwaysOpen>>
  /\ MinuteOfDay(at) = 1320
  /\ hours = EmptyHours
  /\ isOpen = FALSE
  /\ closeAt = <<>>

----------------------------------------------------------------------------
\* runSearch has returned after a non-OK response or a thrown error
SearchHasFailed ==
  /\ pc = "searchDone"
  /\ results # <<>>
  /\ \/ results.Search = Rejected
     \/ ~results.Search.value.ok
     \/ error = SearchNetworkError

(* C30: every invocation of runSearch or planMyNight eventually leaves     *)
(* loading = false, whichever way it ends (success, non-OK response,       *)
(* thrown error, early return for missing coordinates or an empty pool),   *)
(* and loading is false whenever a handler has returned; a search that     *)
(* ended on a non-OK response or a thrown error leaves venues empty,       *)
(* count 0 and the night plan null.                                        *)
C30_LoadingEventuallyFalse ==
  /\ loading ~> ~loading
  /\ [](pc \in {"idle", "searchDone", "planDone"} => ~loading)
  /\ [](SearchHasFailed => (venues = <<>> /\ count = 0 /\ nightPlan = <<>>))

\* a search answered with a server error after an earlier search had listed
\* venues (the Plan button was used): nothing listed, no plan, loading off
C30_Witness ==
  /\ SearchHasFailed
  /\ results.Search = Fulfilled(ServerError)
  /\ error = <<"Server error">>
  /\ venues = <<>>
  /\ count = 0
  /\ nightPlan = <<>>
  /\ ~loading

====
